---- MODULE Spec2Model ----
(***************************************************************************)
(* ReflexED lesson-generation pipeline (app/services/assignment_service.py)*)
(* as a state machine: the persistence store (assignments and              *)
(* assignment_versions tables), the per-assignment scratch directory, one  *)
(* create_assignment flow and a bounded number of regenerate_variant flows, *)
(* each with its own database session.                                     *)
(***************************************************************************)
EXTENDS Integers, Sequences, FiniteSets, TLC

\* ---------------------------------------------------------------- bounds
MaxAssign == 1      \* create_assignment calls in one behaviour
MaxRegen == 2       \* regenerate_variant calls in one behaviour

AIds == 1..MaxAssign
RIds == 1..MaxRegen

\* ------------------------------------------------------ python values
\* A JSON/python value: t is its type, n its len() (0 for falsy), s the
\* text of a string that the program compares or stores.
Str(s) == [t |-> "str", n |-> 1, s |-> s]
EmptyStr == [t |-> "str", n |-> 0, s |-> ""]
List(n) == [t |-> "list", n |-> n, s |-> ""]
Null == [t |-> "null", n |-> 0, s |-> ""]

EmptyDict == [k \in {} |-> Null]

Truthy(v) == v.n > 0
IsList(v) == v.t = "list"

\* dict.get(key, default)
Get(d, k, default) == IF k \in DOMAIN d THEN d[k] ELSE default

\* {**fallback_keys, **data}
Overlay(fallback_keys, data) ==
  [k \in DOMAIN fallback_keys \cup DOMAIN data |->
     IF k \in DOMAIN data THEN data[k] ELSE fallback_keys[k]]

\* json.dumps(value): the text column holds an encoding of the value
Dumps(d) == [enc |-> "json", val |-> d]
NoText == [enc |-> "null", val |-> EmptyDict]

\* the assets column: a mapping, or a JSON text assigned to the JSON column
AssetsMapping(d) == [form |-> "mapping", val |-> d]
AssetsText(d) == [form |-> "text", val |-> d]

\* ------------------------------------------------- generation backend
\* A backend response text, by what the repair-and-parse step makes of it:
\* kind "object" parses to the mapping data; the other kinds (empty text,
\* text that stays invalid after repair, valid JSON that is not an object)
\* yield no mapping.
Resp(kind, data) == [kind |-> kind, data |-> data]
EmptyResp == Resp("empty", EmptyDict)
InvalidResp == Resp("invalid", EmptyDict)

\* One attempt of model.generate_content: it returns a text or raises.
Ok(r) == [ok |-> TRUE, text |-> r, exc |-> ""]
BackendErrors == {"504 Deadline Exceeded"}
Fail(e) == [ok |-> FALSE, text |-> EmptyResp, exc |-> e]

GeminiMaxRetries == 2

\* the for-loop of _call_gemini_with_retry from 0-based attempt on, over
\* the outcomes outs[1..max_retries] of the successive backend attempts
RECURSIVE call_gemini_loop(_, _)
call_gemini_loop(outs, attempt) ==
  IF attempt >= GeminiMaxRetries
    THEN [raised |-> FALSE, exc |-> "", text |-> EmptyResp, attempts |-> attempt]
    ELSE IF outs[attempt + 1].ok
      THEN [raised |-> FALSE, exc |-> "", text |-> outs[attempt + 1].text,
            attempts |-> attempt + 1]
      ELSE IF attempt = GeminiMaxRetries - 1
        THEN [raised |-> TRUE, exc |-> outs[attempt + 1].exc, text |-> EmptyResp,
              attempts |-> attempt + 1]
        ELSE call_gemini_loop(outs, attempt + 1)

\* (mutant) the last failure is swallowed and '' returned
call_gemini_swallow(outs) ==
  LET call == call_gemini_loop(outs, 0)
  IN IF call.raised
       THEN [raised |-> FALSE, exc |-> "", text |-> EmptyResp, attempts |-> call.attempts]
       ELSE call

call_gemini_with_retry(outs) == call_gemini_loop(outs, 0)

\* _parse_json at the level of the pipeline: the fallback when no mapping
\* comes out of the text, else the fallback overlaid with the parsed fields
parse_json(text, fallback_keys) ==
  IF text.kind = "object" THEN Overlay(fallback_keys, text.data) ELSE fallback_keys

\* ------------------------------------------------ response text repair
\* A response text by the features the repair of _parse_json looks at:
\*   blank     nothing but white space
\*   wrap      "bare", inside a ``` fence, or with prose around the value
\*   commas    trailing commas: "none", "plain" (right before a closing
\*             brace or bracket) or "before_comment" (a comment stands
\*             between the comma and the closing brace)
\*   comments  // or /* */ comments between the fields
\*   quotes    "ascii", smart quotes as the string delimiters, or smart
\*             quotes inside a string value
\*   slashes   a string value that holds // (a URL)
\*   payload   what the value is once the above is set aside: an "object"
\*             with fields data, an "array" of scalars, an array of one
\*             object with fields data, an array of several objects, a
\*             "scalar", or "garbage"
RawData ==
  { EmptyDict,
    ("text" :> Str("simplified")) @@ ("highlights" :> List(1)),
    ("summary" :> Str("quiz")) @@ ("questions" :> List(2)) @@ ("extra" :> Null) }
RawTexts ==
  {t \in [blank : BOOLEAN, wrap : {"bare", "fenced", "prose"},
          commas : {"none", "plain", "before_comment"}, comments : BOOLEAN,
          quotes : {"ascii", "smart_delimiters", "smart_in_string"}, slashes : BOOLEAN,
          payload : {"object", "array", "array_one_object", "array_objects",
                     "scalar", "garbage"},
          data : RawData] :
     t.commas = "before_comment" => t.comments}

\* lines 936-938: the inside of the first ``` fence
strip_fence(t) == IF t.wrap = "fenced" THEN [t EXCEPT !.wrap = "bare"] ELSE t

\* lines 941-946: a text that does not start with { is cut from its first {
\* to its last }: an object loses the prose around it, an array of one
\* object its brackets too, an array of several objects becomes
\* "{..}, {..}"; a text without braces stays as it is
trim_to_braces(t) ==
  IF t.wrap = "bare" /\ t.payload = "object" THEN t
  ELSE CASE t.payload \in {"object", "array_one_object"} ->
              [t EXCEPT !.wrap = "bare", !.payload = "object"]
         [] t.payload = "array_objects" -> [t EXCEPT !.wrap = "bare", !.payload = "garbage"]
         [] OTHER -> t

\* line 950: a comma right before a closing brace or bracket goes
remove_trailing_commas(t) ==
  IF t.commas = "plain" THEN [t EXCEPT !.commas = "none"] ELSE t

\* lines 953-954: // to the end of the line and /* */ go, inside string
\* values too; a comma that stood before a comment now stands before the
\* closing brace, after the step that removes such commas
remove_comments(t) ==
  [t EXCEPT !.comments = FALSE,
            !.payload = IF t.slashes THEN "garbage" ELSE @,
            !.commas = IF @ = "before_comment" THEN "plain" ELSE @]

\* lines 958-968: smart quotes become ASCII quotes, inside string values too
replace_smart_quotes(t) ==
  [t EXCEPT !.quotes = "ascii",
            !.payload = IF t.quotes = "smart_in_string" THEN "garbage" ELSE @]

\* lines 933-968
clean(t) ==
  replace_smart_quotes(remove_comments(remove_trailing_commas(
    trim_to_braces(strip_fence(t)))))

\* json.loads(cleaned): "decode_error", or the kind of the value
loads(t) ==
  IF t.wrap # "bare" \/ t.commas # "none" \/ t.comments \/ t.quotes # "ascii"
       \/ t.payload = "garbage"
    THEN "decode_error"
    ELSE IF t.payload \in {"array_one_object", "array_objects"} THEN "array"
    ELSE t.payload

\* what _parse_json makes of a text (Resp)
Repaired(t) ==
  IF t.blank THEN EmptyResp
  ELSE IF loads(clean(t)) = "object" THEN Resp("object", t.data)
  ELSE InvalidResp

\* (mutant) only JSONDecodeError is handled: the TypeError of merging a
\* value that is not a mapping escapes
parse_json_text_narrow(t, fallback_keys) ==
  IF ~t.blank /\ loads(clean(t)) \in {"array", "scalar"}
    THEN [raised |-> TRUE, result |-> EmptyDict]
    ELSE [raised |-> FALSE, result |-> parse_json(Repaired(t), fallback_keys)]

\* (mutant) a blank text yields an empty mapping
parse_json_text_blank_empty(t, fallback_keys) ==
  [raised |-> FALSE,
   result |-> IF t.blank THEN EmptyDict ELSE parse_json(Repaired(t), fallback_keys)]

\* _parse_json(text, fallback_keys) on a text: every exception of the parse
\* and of the merge is handled (lines 974-988), so the call returns
parse_json_text(t, fallback_keys) ==
  [raised |-> FALSE, result |-> parse_json(Repaired(t), fallback_keys)]

\* the outcomes of the attempts of one generate call, for a set of texts:
\* the attempts after the first success are never made
AttemptSeqs(texts) ==
  {<<Ok(r)>> : r \in texts}
    \cup {<<Fail(e), Ok(r)>> : e \in BackendErrors, r \in texts}
    \cup {<<Fail(e), Fail(f)>> : e \in BackendErrors, f \in BackendErrors}

\* ------------------------------------------------- variant generators
Subjects == {"language", "math", "science", "history", "geography", "art"}
Difficulties == {"easy", "medium", "hard"}

\* a generator's outcome: the mapping it returns, or the exception that
\* escapes it; attempts counts the backend attempts it made
Returned(result, attempts) ==
  [raised |-> FALSE, exc |-> "", result |-> result, attempts |-> attempts, cycles |-> 1]
Raised(exc, attempts) ==
  [raised |-> TRUE, exc |-> exc, result |-> EmptyDict, attempts |-> attempts, cycles |-> 1]

SimplifiedFallback == ("text" :> Str("source")) @@ ("highlights" :> List(0))
SimplifiedTexts ==
  { Resp("object", ("text" :> Str("simplified")) @@ ("highlights" :> List(1))),
    InvalidResp }

gen_simplified_text(outs) ==
  LET call == call_gemini_with_retry(outs)
  IN IF call.raised THEN Raised(call.exc, call.attempts)
     ELSE Returned(parse_json(call.text, SimplifiedFallback), call.attempts)

AudioFallback ==
  ("discussion" :> List(1)) @@ ("summary" :> Str("Educational podcast discussion"))
AudioTexts ==
  { Resp("object", ("discussion" :> List(2)) @@ ("summary" :> Str("podcast"))),
    Resp("object", ("discussion" :> List(0)) @@ ("script" :> Str("script"))),
    InvalidResp }

gen_audio_script(outs) ==
  LET call == call_gemini_with_retry(outs)
  IN IF call.raised THEN Raised(call.exc, call.attempts)
     ELSE Returned(parse_json(call.text, AudioFallback), call.attempts)

VisualFallback ==
  ("description" :> Str("Visual animation")) @@ ("narration" :> List(1))
    @@ ("manim_code" :> Str("TitleScene"))
VisualTexts ==
  { Resp("object", ("description" :> Str("video")) @@ ("narration" :> List(3))
                     @@ ("manim_code" :> Str("Lesson"))),
    Resp("object", ("narration" :> List(0)) @@ ("manim_code" :> Str("Lesson"))),
    InvalidResp }

gen_visual_plan(outs) ==
  LET call == call_gemini_with_retry(outs)
  IN IF call.raised THEN Raised(call.exc, call.attempts)
     ELSE Returned(parse_json(call.text, VisualFallback), call.attempts)

\* quiz_formats.get(subject.lower(), {'type': 'standard', ...})['type']
QuizType(subject) ==
  CASE subject = "language" -> "socratic"
    [] subject = "math" -> "practice"
    [] subject = "science" -> "practice_repeatable"
    [] subject = "history" -> "timeline_fill"
    [] subject = "geography" -> "practice_repeatable"
    [] OTHER -> "standard"

\* what the quiz prompt says about difficulty: the instruction of the
\* difficulty (an unknown difficulty reads as medium) in the formats that
\* embed diff_instruction, nothing in the geography and default formats
PromptFlavor(subject, difficulty) ==
  IF subject \in {"language", "math", "science", "history"}
    THEN (IF difficulty \in Difficulties THEN difficulty ELSE "medium")
    ELSE "none"

QuizFallback(subject) ==
  ("summary" :> Str("practice exercise")) @@ ("quiz_type" :> Str(QuizType(subject)))
    @@ ("questions" :> List(0))

\* the texts the backend may answer a quiz prompt with; the items carry the
\* flavor of the prompt they answer
Items(n, flavor) == [t |-> "list", n |-> n, s |-> flavor]
QuizTexts(subject, flavor) ==
  { Resp("object", ("summary" :> Str("quiz")) @@ ("quiz_type" :> Str(QuizType(subject)))
                     @@ ("questions" :> Items(1, flavor))),
    Resp("object", ("summary" :> Str("quiz")) @@ ("questions" :> List(0))),
    Resp("object", ("summary" :> Str("timeline")) @@ ("quiz_type" :> Str("timeline_fill"))
                     @@ ("timeline_events" :> Items(1, flavor))),
    InvalidResp }

QuizMaxRetries == 2

\* len(result.get('questions', result.get('timeline_events', [])))
question_count(result) ==
  Get(result, "questions", Get(result, "timeline_events", List(0))).n

\* the generate-and-parse loop of _gen_quiz from 0-based cycle attempt on;
\* cyc[i] are the backend outcomes of cycle i, calls the backend attempts
\* made so far, last the result of the previous cycle
RECURSIVE gen_quiz_loop(_, _, _, _, _)
gen_quiz_loop(subject, cyc, attempt, calls, last) ==
  IF attempt >= QuizMaxRetries
    THEN [raised |-> FALSE, exc |-> "", result |-> last, attempts |-> calls,
          cycles |-> attempt]
    ELSE LET call == call_gemini_with_retry(cyc[attempt + 1])
             result == parse_json(call.text, QuizFallback(subject))
         IN IF call.raised
              THEN [raised |-> TRUE, exc |-> call.exc, result |-> EmptyDict,
                    attempts |-> calls + call.attempts, cycles |-> attempt + 1]
              ELSE IF question_count(result) > 0
                THEN [raised |-> FALSE, exc |-> "", result |-> result,
                      attempts |-> calls + call.attempts, cycles |-> attempt + 1]
                ELSE gen_quiz_loop(subject, cyc, attempt + 1,
                                   calls + call.attempts, result)

gen_quiz(subject, cyc) == gen_quiz_loop(subject, cyc, 0, 0, EmptyDict)

\* the backend outcomes of the cycles of one _gen_quiz call: a second
\* cycle is made only after a first one that returned no items
QuizCycleSeqs(subject, difficulty) ==
  LET calls == AttemptSeqs(QuizTexts(subject, PromptFlavor(subject, difficulty)))
      again(outs) ==
        LET call == call_gemini_with_retry(outs)
        IN ~call.raised /\ question_count(parse_json(call.text, QuizFallback(subject))) = 0
  IN {<<outs>> : outs \in {o \in calls : ~again(o)}}
       \cup {<<outs, outs2>> : outs \in {o \in calls : again(o)}, outs2 \in calls}

\* -------------------------------------------------- scratch directory
\* One directory per assignment: file name -> [size, writer]. size -1: the
\* file does not exist; writer: the pipeline step that wrote it last.
FileNames ==
  {"podcast.mp3", "narration.mp3", "scene.py", "visual_silent.mp4", "visual.mp4",
   "quiz.json", "quiz_easy.json", "quiz_medium.json", "quiz_hard.json"}
NoFile == [size |-> -1, writer |-> ""]
EmptyDir == [n \in FileNames |-> NoFile]
Exists(dir, name) == name \in FileNames /\ dir[name].size >= 0
GetSize(dir, name) == dir[name].size
WriteFile(dir, name, size, writer) ==
  [dir EXCEPT ![name] = [size |-> size, writer |-> writer]]

SizeFloor == 10000
PlaceholderMp4Bytes == 40
PlaceholderMp3Bytes == 500
ExceptMp3Bytes == 104
SpeechBytes == 40000
JsonBytes == 300
ScriptBytes == 200
RenderSizes == {9000, 10000, 25000}
MuxedBytes == 65000

SpeechOutcomes == {"ok", "error"}
RenderOutcomes ==
  {[kind |-> "ok", size |-> n] : n \in RenderSizes}
    \cup {[kind |-> k, size |-> 0] : k \in {"nonzero", "timeout", "not_installed"}}
MuxOutcomes == {"ok", "nonzero", "no_output", "timeout", "not_installed", "error"}

\* _synthesize_audio: the directory after the call (it returns out_dir/name
\* in every case); key: the speech backend is configured, sp: its outcome
synthesize_audio(dir, name, script_nonempty, key, sp, writer) ==
  IF key /\ script_nonempty
    THEN IF sp = "ok" THEN WriteFile(dir, name, SpeechBytes, writer)
                      ELSE WriteFile(dir, name, ExceptMp3Bytes, writer)
    ELSE WriteFile(dir, name, PlaceholderMp3Bytes, writer)

\* _synthesize_podcast: multi-voice synthesis, or the single-voice fallback
\* when the backend is unconfigured or a segment fails.  `sp` is the outcome
\* of the multi-voice calls, `sp2` that of the fallback call.
synthesize_podcast(dir, name, discussion, key, sp, sp2, writer) ==
  IF key /\ Truthy(discussion)
    THEN IF sp = "ok" THEN WriteFile(dir, name, SpeechBytes, writer)
                      ELSE synthesize_audio(dir, name, TRUE, key, sp2, writer)
    ELSE synthesize_audio(dir, name, TRUE, key, sp2, writer)

\* _render_manim: (directory after, success); video_path is out_dir/name
\* and script_path out_dir/scene.py in every case
render_manim(dir, name, rd) ==
  LET d1 == WriteFile(dir, "scene.py", ScriptBytes, "visual")
  IN IF rd.kind = "ok"
       THEN [dir |-> WriteFile(d1, name, rd.size, "visual"), success |-> TRUE]
       ELSE [dir |-> IF ~Exists(d1, name)
                       THEN WriteFile(d1, name, PlaceholderMp4Bytes, "visual")
                       ELSE d1,
             success |-> FALSE]

\* (mutant) a failed mux returns the path of the output it did not write
add_audio_to_video_output_path(dir, video_path, audio_path, name, mx) ==
  IF ~Exists(dir, video_path)
    THEN [dir |-> dir, path |-> video_path, invoked |-> FALSE]
    ELSE IF GetSize(dir, video_path) < SizeFloor
      THEN [dir |-> dir, path |-> video_path, invoked |-> FALSE]
      ELSE IF mx = "ok"
        THEN [dir |-> WriteFile(dir, name, MuxedBytes, "visual"), path |-> name,
              invoked |-> TRUE]
        ELSE [dir |-> dir, path |-> name, invoked |-> TRUE]

\* _add_audio_to_video: (directory after, returned path, muxer invoked)
add_audio_to_video(dir, video_path, audio_path, name, mx) ==
  IF ~Exists(dir, video_path)
    THEN [dir |-> dir, path |-> video_path, invoked |-> FALSE]
    ELSE IF GetSize(dir, video_path) < SizeFloor
      THEN [dir |-> dir, path |-> video_path, invoked |-> FALSE]
      ELSE IF mx = "ok"
        THEN [dir |-> WriteFile(dir, name, MuxedBytes, "visual"), path |-> name,
              invoked |-> TRUE]
        ELSE [dir |-> dir, path |-> video_path, invoked |-> TRUE]

\* (mutant) any video larger than the placeholder file passes
valid_video_above_placeholder(dir, video_path) ==
  Exists(dir, video_path) /\ GetSize(dir, video_path) > PlaceholderMp4Bytes

\* (mutant) a video that exists passes, whatever its size
valid_video_any_size(dir, video_path) == Exists(dir, video_path)

\* the orchestrator's own test for a genuine video (lines 237 and 249)
valid_video(dir, video_path) ==
  Exists(dir, video_path) /\ GetSize(dir, video_path) > SizeFloor

\* ---------------------------------------------------------------- state
VARIABLES
  assignments,     \* committed rows of table assignments
  versions,        \* committed rows of table assignment_versions
  nextId,          \* next primary key of an assignment_versions row
  fs,              \* scratch directory of each assignment
  elevenlabs_key,  \* Config.ELEVENLABS_API_KEY is set
  created,         \* number of create_assignment calls made
  objs,            \* the Assignment object of each create_assignment call
  outcome,         \* how each create_assignment call ended, and what it met
  c,               \* the running create_assignment call: position and locals
  regen,           \* the regenerate_variant calls: position and locals
  probe            \* a direct call of one helper: its arguments and its result

vars ==
  <<assignments, versions, nextId, fs, elevenlabs_key, created, objs, outcome, c, regen,
    probe>>

VariantTypes == {"simplified", "audio", "visual", "quiz"}
VariantOrder == <<"simplified", "audio", "visual", "quiz">>

\* ------------------------------------------------------------ the store
HasRow(rows, id) == \E row \in rows : row.id = id
RowOf(rows, id) == CHOOSE row \in rows : row.id = id
VersionsOf(rows, aid) == {v \in rows : v.assignment_id = aid}
VersionsOfType(rows, aid, vtype) ==
  {v \in rows : v.assignment_id = aid /\ v.variant_type = vtype}

\* (mutant) the index is not unique: every row is admitted
NonUniqueIndex(rows, aid, vtype) == TRUE

\* (mutant) the index is unique for every variant type but quiz
UniqueIndexExceptQuiz(rows, aid, vtype) ==
  vtype = "quiz" \/ VersionsOfType(rows, aid, vtype) = {}

\* the unique index idx_assignment_variant_unique admits the new row
UniqueIndexAdmits(rows, aid, vtype) == VersionsOfType(rows, aid, vtype) = {}

\* the row an Assignment object maps to
AssignmentRow(obj) ==
  [id |-> obj.id, subject |-> obj.subject, original_content |-> obj.original_content,
   file_path |-> obj.file_path, status |-> obj.status,
   error_message |-> obj.error_message]

\* session.commit() as far as the Assignment object goes: a pending object
\* is inserted, a persistent one updated, a transient one is not the
\* session's and nothing is written
CommitAssignment(rows, obj) ==
  CASE obj.state = "pending" -> rows \cup {AssignmentRow(obj)}
    [] obj.state = "persistent" ->
         {row \in rows : row.id # obj.id} \cup {AssignmentRow(obj)}
    [] OTHER -> rows

AfterCommit(obj) ==
  IF obj.state = "pending" THEN [obj EXCEPT !.state = "persistent"] ELSE obj

\* session.rollback(): an object flushed but never committed is expunged
\* (it keeps its attributes); a persistent one is expired and reloads from
\* its committed row
AfterRollback(rows, obj) ==
  CASE obj.state = "pending" -> [obj EXCEPT !.state = "transient"]
    [] obj.state = "persistent" ->
         [obj EXCEPT !.status = RowOf(rows, obj.id).status,
                     !.error_message = RowOf(rows, obj.id).error_message]
    [] OTHER -> obj

\* (mutant) ready is left to its column default, False
VersionRowNotReady(id, aid, vtype, subject, content_text, assets) ==
  [id |-> id, assignment_id |-> aid, variant_type |-> vtype, subject |-> subject,
   content_text |-> content_text, assets |-> AssetsMapping(assets), ready |-> FALSE]

\* AssignmentVersion(...) of _persist_variant
VersionRow(id, aid, vtype, subject, content_text, assets) ==
  [id |-> id, assignment_id |-> aid, variant_type |-> vtype, subject |-> subject,
   content_text |-> content_text, assets |-> AssetsMapping(assets), ready |-> TRUE]

IntegrityError == "IntegrityError: UNIQUE constraint failed"
NoContent == "No content found in assignment"

\* ------------------------------------------------------- text extraction
\* original_content, and what extract_text makes of the file: "none" is
\* None, "blank" a text of white space only, "text" a text with content
Contents == {"none", "blank", "text"}
OriginalTexts == {"none", "text"}
RegenDifficulties == {"medium", "hard"}
FilePaths == {"none", "lesson.txt"}
StripLen(t) == IF t = "text" THEN 5 ELSE 0

\* extract_text(path): a file reference is None (NoPath) or names a file
\* that exists or not, carries an extension, can be opened and decoded or
\* raises while being read, and holds no characters ("empty"), white space
\* only ("blank") or words ("text")
FileExts == {".txt", ".md", ".pdf", ".docx", ".pptx", ".png"}
TextExts == {".txt", ".md"}
DocumentExts == {".pdf", ".docx", ".pptx"}
FileBodies == {"empty", "blank", "text"}
NoPath == [ext |-> "none"]
FileRefs ==
  {NoPath} \cup [exists : BOOLEAN, ext : FileExts, readable : BOOLEAN, body : FileBodies]

\* '\n'.join(...).strip() or None of the document readers
StripOrNone(body) == IF body = "text" THEN "text" ELSE "none"

extract_text(path) ==
  IF path = NoPath \/ ~path.exists THEN [raised |-> FALSE, text |-> "none"]
  ELSE IF ~path.readable THEN [raised |-> FALSE, text |-> "none"]
  ELSE IF path.ext \in TextExts THEN [raised |-> FALSE, text |-> path.body]
  ELSE IF path.ext \in DocumentExts
    THEN [raised |-> FALSE, text |-> StripOrNone(path.body)]
  ELSE [raised |-> FALSE, text |-> path.body]

\* text_parts of _generate_all_variants / regenerate_variant
TextParts(original_content, file_path, file_text) ==
  (IF original_content # "none" THEN <<StripLen(original_content)>> ELSE <<>>)
    \o (IF file_path # "none" /\ file_text # "none" THEN <<StripLen(file_text)>>
        ELSE <<>>)

RECURSIVE SumSeq(_)
SumSeq(q) == IF q = <<>> THEN 0 ELSE Head(q) + SumSeq(Tail(q))

\* len("\n\n".join(text_parts)), -1 for None
BaseTextLen(parts) ==
  IF parts = <<>> THEN -1 ELSE SumSeq(parts) + 2 * (Len(parts) - 1)

\* (mutant) `base_text is None`: an empty text passes
NoBaseTextNoneOnly(parts) == parts = <<>>

\* `not base_text`
NoBaseText(parts) == BaseTextLen(parts) <= 0

\* ------------------------------------------------------ create_assignment
NoObj ==
  [id |-> 0, subject |-> "", original_content |-> "none", file_path |-> "none",
   status |-> "", error_message |-> "", state |-> "none"]

\* ended: "no", "returned" or "raised"; failed_at: the step the exception
\* escaped from; base_text: len(base_text), -1 for None; called: a backend
\* attempt was made; backend_ok: a backend attempt succeeded
NoOutcome ==
  [ended |-> "no", failed_at |-> "", base_text |-> -1, called |-> FALSE,
   backend_ok |-> FALSE]

\* the step of _generate_all_variants a position belongs to
StepOfPc(pc) ==
  CASE pc \in {"gen_simplified", "persist_simplified"} -> "simplified"
    [] pc \in {"gen_audio", "synth_audio", "persist_audio"} -> "audio"
    [] pc \in {"visual", "mux", "persist_visual"} -> "visual"
    [] pc \in {"gen_quiz", "persist_quiz"} -> "quiz"
    [] OTHER -> "extract"

CIdle ==
  [pc |-> "idle", id |-> 0, exc |-> "", failed_at |-> "", base_text |-> -1,
   called |-> FALSE, backend_ok |-> FALSE, attempts |-> 0,
   simplified |-> EmptyDict, audio |-> EmptyDict, audio_mp3 |-> "",
   visual |-> EmptyDict, narration_audio |-> "", video_mp4 |-> "",
   manim_script |-> "", success |-> FALSE, attempt |-> 0, final_video |-> "",
   mux_called |-> FALSE, mux_invoked |-> FALSE, quiz |-> EmptyDict, quiz_path |-> ""]

\* an exception escapes _generate_all_variants
CRaise(exc) ==
  [c EXCEPT !.pc = "except", !.exc = exc, !.failed_at = StepOfPc(c.pc)]

\* the running call after a generate call with backend outcomes `tried`
AnyOk(outs) == \E i \in DOMAIN outs : outs[i].ok
CCalled(cc, tried) ==
  [cc EXCEPT !.called = TRUE, !.backend_ok = cc.backend_ok \/ AnyOk(tried),
             !.attempts = cc.attempts + Len(tried)]

\* the backend attempts of all the cycles of one _gen_quiz call, in order
RECURSIVE AllAttempts(_)
AllAttempts(cyc) == IF cyc = <<>> THEN <<>> ELSE Head(cyc) \o AllAttempts(Tail(cyc))

\* lines 61-72: the Assignment object is added to the session and flushed
\* (its INSERT is sent inside the open transaction, not committed)
CreateAssignment(subject, original_text, file_path) ==
  /\ c.pc = "idle"
  /\ created < MaxAssign
  /\ created' = created + 1
  /\ objs' = [objs EXCEPT ![created + 1] =
       [id |-> created + 1, subject |-> subject, original_content |-> original_text,
        file_path |-> file_path, status |-> "generating", error_message |-> "",
        state |-> "pending"]]
  /\ c' = [CIdle EXCEPT !.pc = "extract", !.id = created + 1]
  /\ UNCHANGED <<assignments, versions, nextId, fs, elevenlabs_key, probe, outcome, regen>>

\* lines 147-172: combine the texts, raise when there is none
ExtractContent ==
  /\ c.pc = "extract"
  /\ \E file_text \in Contents :
       LET obj == objs[c.id]
           parts == TextParts(obj.original_content, obj.file_path, file_text)
           cc == [c EXCEPT !.base_text = BaseTextLen(parts)]
       IN c' = IF NoBaseText(parts)
                 THEN [cc EXCEPT !.pc = "except", !.exc = NoContent,
                                 !.failed_at = "extract"]
                 ELSE [cc EXCEPT !.pc = "gen_simplified"]
  /\ UNCHANGED <<assignments, versions, nextId, fs, elevenlabs_key, probe, created, objs, outcome, regen>>

\* line 176
GenSimplified(env) ==
  /\ c.pc = "gen_simplified"
  /\ \E outs \in AttemptSeqs(env.simplified) :
       LET g == gen_simplified_text(outs)
       IN c' = CCalled(IF g.raised THEN CRaise(g.exc)
                       ELSE [c EXCEPT !.pc = "persist_simplified",
                                      !.simplified = g.result], outs)
  /\ UNCHANGED <<assignments, versions, nextId, fs, elevenlabs_key, probe, created, objs, outcome, regen>>

\* _persist_variant called by the running creation (lines 1009-1022): the
\* row is added and the session committed, which also commits the
\* Assignment object; a commit the unique index refuses raises and the
\* transaction is undone
CPersist(vtype, content_text, assets, nextpc) ==
  LET obj == objs[c.id]
  IN IF UniqueIndexAdmits(versions, c.id, vtype)
       THEN /\ versions' = versions \cup
                 {VersionRow(nextId, c.id, vtype, obj.subject, content_text, assets)}
            /\ nextId' = nextId + 1
            /\ assignments' = CommitAssignment(assignments, obj)
            /\ objs' = [objs EXCEPT ![c.id] = AfterCommit(obj)]
            /\ c' = [c EXCEPT !.pc = nextpc]
       ELSE /\ c' = CRaise(IntegrityError)
            /\ UNCHANGED <<assignments, versions, nextId, objs>>

\* (mutant) the simplified variant is not persisted before the audio step
PersistSimplifiedDeferred ==
  /\ c.pc = "persist_simplified"
  /\ c' = [c EXCEPT !.pc = "gen_audio"]
  /\ UNCHANGED <<assignments, versions, nextId, objs>>
  /\ UNCHANGED <<fs, elevenlabs_key, probe, created, outcome, regen>>

\* lines 177-180
PersistSimplified ==
  /\ c.pc = "persist_simplified"
  /\ CPersist("simplified", Dumps(c.simplified), EmptyDict, "gen_audio")
  /\ UNCHANGED <<fs, elevenlabs_key, probe, created, outcome, regen>>

\* line 185
GenAudio(env) ==
  /\ c.pc = "gen_audio"
  /\ \E outs \in AttemptSeqs(env.audio) :
       LET g == gen_audio_script(outs)
       IN c' = CCalled(IF g.raised THEN CRaise(g.exc)
                       ELSE [c EXCEPT !.pc = "synth_audio", !.audio = g.result], outs)
  /\ UNCHANGED <<assignments, versions, nextId, fs, elevenlabs_key, probe, created, objs, outcome, regen>>

\* lines 188-198: the podcast of the discussion, else single-voice narration
SynthAudio(env) ==
  /\ c.pc = "synth_audio"
  /\ \E sp \in env.speech, sp2 \in env.speech :
       LET discussion == Get(c.audio, "discussion", List(0))
       IN IF Truthy(discussion) /\ IsList(discussion)
            THEN /\ fs' = [fs EXCEPT ![c.id] = synthesize_podcast(
                      fs[c.id], "podcast.mp3", discussion, elevenlabs_key, sp, sp2, "audio")]
                 /\ c' = [c EXCEPT !.pc = "persist_audio", !.audio_mp3 = "podcast.mp3"]
            ELSE /\ fs' = [fs EXCEPT ![c.id] = synthesize_audio(
                      fs[c.id], "narration.mp3",
                      Truthy(Get(c.audio, "script", Str("repr"))), elevenlabs_key, sp2,
                      "audio")]
                 /\ c' = [c EXCEPT !.pc = "persist_audio", !.audio_mp3 = "narration.mp3"]
  /\ UNCHANGED <<assignments, versions, nextId, elevenlabs_key, probe, created, objs, outcome, regen>>

\* lines 201-205
PersistAudio ==
  /\ c.pc = "persist_audio"
  /\ CPersist("audio", Dumps(c.audio),
              ("audio_mp3" :> Str(c.audio_mp3))
                @@ ("summary" :> Get(c.audio, "summary", Str("Educational podcast discussion"))),
              "visual")
  /\ UNCHANGED <<fs, elevenlabs_key, probe, created, outcome, regen>>

VisualMaxAttempts == 2

\* lines 216-243, one pass of the loop: plan, narration, render, check
VisualCycle(env) ==
  /\ c.pc = "visual"
  /\ \E outs \in AttemptSeqs(env.visual), sp \in env.speech, rd \in env.render :
       LET g == gen_visual_plan(outs)
           narration_segments == Get(g.result, "narration", List(0))
           narrated == Truthy(narration_segments) /\ IsList(narration_segments)
           d1 == IF narrated
                   THEN synthesize_audio(fs[c.id], "narration.mp3", TRUE,
                                         elevenlabs_key, sp, "visual")
                   ELSE fs[c.id]
           r == render_manim(d1, "visual_silent.mp4", rd)
           last == (r.success /\ valid_video(r.dir, "visual_silent.mp4"))
                     \/ (c.attempt = VisualMaxAttempts - 1)
       IN IF g.raised
            THEN /\ c' = CCalled(CRaise(g.exc), outs)
                 /\ fs' = fs
            ELSE /\ fs' = [fs EXCEPT ![c.id] = r.dir]
                 /\ c' = [CCalled(c, outs) EXCEPT
                       !.pc = IF last THEN "mux" ELSE "visual",
                       !.attempt = IF last THEN c.attempt ELSE c.attempt + 1,
                       !.visual = g.result,
                       !.narration_audio =
                          IF narrated THEN "narration.mp3" ELSE c.narration_audio,
                       !.video_mp4 = "visual_silent.mp4",
                       !.manim_script = "scene.py",
                       !.success = r.success]
  /\ UNCHANGED <<assignments, versions, nextId, elevenlabs_key, probe, created, objs, outcome, regen>>

\* (mutant) a failure of the muxer escapes the mux step
MuxStepRaises(env) ==
  /\ c.pc = "mux"
  /\ \E mx \in env.mux :
       IF c.narration_audio # "" /\ Exists(fs[c.id], c.narration_audio)
            /\ valid_video(fs[c.id], c.video_mp4)
         THEN LET m == add_audio_to_video(fs[c.id], c.video_mp4, c.narration_audio,
                                          "visual.mp4", mx)
              IN /\ fs' = [fs EXCEPT ![c.id] = m.dir]
                 /\ c' = IF mx = "ok"
                           THEN [c EXCEPT !.pc = "persist_visual", !.final_video = m.path,
                                          !.mux_called = TRUE, !.mux_invoked = m.invoked]
                           ELSE CRaise("ffmpeg failed")
         ELSE /\ fs' = fs
              /\ c' = [c EXCEPT !.pc = "persist_visual", !.final_video = c.video_mp4]
  /\ UNCHANGED <<assignments, versions, nextId, elevenlabs_key, probe, created, objs, outcome, regen>>

\* lines 245-254: narration is muxed into a genuine video only
MuxStep(env) ==
  /\ c.pc = "mux"
  /\ \E mx \in env.mux :
       IF c.narration_audio # "" /\ Exists(fs[c.id], c.narration_audio)
            /\ valid_video(fs[c.id], c.video_mp4)
         THEN LET m == add_audio_to_video(fs[c.id], c.video_mp4, c.narration_audio,
                                          "visual.mp4", mx)
              IN /\ fs' = [fs EXCEPT ![c.id] = m.dir]
                 /\ c' = [c EXCEPT !.pc = "persist_visual", !.final_video = m.path,
                                   !.mux_called = TRUE, !.mux_invoked = m.invoked]
         ELSE /\ fs' = fs
              /\ c' = [c EXCEPT !.pc = "persist_visual", !.final_video = c.video_mp4]
  /\ UNCHANGED <<assignments, versions, nextId, elevenlabs_key, probe, created, objs, outcome, regen>>

\* lines 257-261
PersistVisual ==
  /\ c.pc = "persist_visual"
  /\ CPersist("visual", Dumps(c.visual),
              ("video_mp4" :> Str(c.final_video)) @@ ("manim_script" :> Str(c.manim_script))
                @@ ("narration_audio" :>
                      IF c.narration_audio # "" THEN Str(c.narration_audio) ELSE EmptyStr),
              "gen_quiz")
  /\ UNCHANGED <<fs, elevenlabs_key, probe, created, outcome, regen>>

\* lines 266-267: the quiz at the default difficulty, dumped to quiz.json
GenQuiz ==
  /\ c.pc = "gen_quiz"
  /\ \E cyc \in QuizCycleSeqs(objs[c.id].subject, "medium") :
       LET g == gen_quiz(objs[c.id].subject, cyc)
       IN IF g.raised
            THEN /\ c' = CCalled(CRaise(g.exc), AllAttempts(cyc))
                 /\ fs' = fs
            ELSE /\ c' = [CCalled(c, AllAttempts(cyc)) EXCEPT
                                   !.pc = "persist_quiz", !.quiz = g.result,
                                   !.quiz_path = "quiz.json"]
                 /\ fs' = [fs EXCEPT ![c.id] =
                             WriteFile(fs[c.id], "quiz.json", JsonBytes, "quiz")]
  /\ UNCHANGED <<assignments, versions, nextId, elevenlabs_key, probe, created, objs, outcome, regen>>

\* lines 269-272
PersistQuiz ==
  /\ c.pc = "persist_quiz"
  /\ CPersist("quiz", Dumps(c.quiz), ("quiz_json" :> Str(c.quiz_path)), "finish")
  /\ UNCHANGED <<fs, elevenlabs_key, probe, created, outcome, regen>>

\* what is known of the running call when it ends
Ended(how) ==
  [ended |-> how, failed_at |-> c.failed_at, base_text |-> c.base_text,
   called |-> c.called, backend_ok |-> c.backend_ok]

\* lines 76-78 and 89: all four steps returned
CreateReturn ==
  /\ c.pc = "finish"
  /\ LET obj == [objs[c.id] EXCEPT !.status = "ready"]
     IN /\ assignments' = CommitAssignment(assignments, obj)
        /\ objs' = [objs EXCEPT ![c.id] = AfterCommit(obj)]
  /\ outcome' = [outcome EXCEPT ![c.id] = Ended("returned")]
  /\ c' = CIdle
  /\ UNCHANGED <<versions, nextId, fs, elevenlabs_key, probe, created, regen>>

\* lines 79-87: the handler of an escaping exception
CreateExcept ==
  /\ c.pc = "except"
  /\ LET rolled == AfterRollback(assignments, objs[c.id])
         obj == [rolled EXCEPT !.status = "failed", !.error_message = c.exc]
     IN /\ assignments' = CommitAssignment(assignments, obj)
        /\ objs' = [objs EXCEPT ![c.id] = AfterCommit(obj)]
  /\ outcome' = [outcome EXCEPT ![c.id] = Ended("raised")]
  /\ c' = CIdle
  /\ UNCHANGED <<versions, nextId, fs, elevenlabs_key, probe, created, regen>>

\* ----------------------------------------------------- regenerate_variant
Unsupported == "Regeneration not supported for variant type"

RIdle ==
  [pc |-> "idle", aid |-> 0, variant_type |-> "", difficulty |-> "", existing |-> 0,
   quiz |-> EmptyDict, quiz_path |-> "", ended |-> "no", ret |-> 0, exc |-> ""]

QuizPath(difficulty) ==
  CASE difficulty = "easy" -> "quiz_easy.json"
    [] difficulty = "hard" -> "quiz_hard.json"
    [] OTHER -> "quiz_medium.json"

\* the call ends: its locals are gone; what the caller passed and the
\* outcome it sees stay
RRaise(r, a, exc) ==
  [regen EXCEPT ![r] = [RIdle EXCEPT !.pc = "done", !.aid = a,
                                     !.variant_type = regen[r].variant_type,
                                     !.ended = "raised", !.exc = exc]]
RReturn(r, a, ret) ==
  [regen EXCEPT ![r] = [RIdle EXCEPT !.pc = "done", !.aid = a,
                                     !.variant_type = regen[r].variant_type,
                                     !.ended = "returned", !.ret = ret]]

\* AssignmentVersion.query.filter_by(...).first(): the id of the row, 0 for None
FirstVersion(rows, aid, vtype) ==
  IF VersionsOfType(rows, aid, vtype) = {} THEN 0
  ELSE (CHOOSE v \in VersionsOfType(rows, aid, vtype) :
          \A w \in VersionsOfType(rows, aid, vtype) : v.id <= w.id).id

\* (mutant) the variant type is not checked: every type is generated
RegenStartAnyType(r, a, variant_type, difficulty) ==
  /\ regen[r].pc = "idle"
  /\ \A q \in RIds : q < r => regen[q].pc # "idle"
  /\ HasRow(assignments, a)
  /\ \E file_text \in Contents :
       LET row == RowOf(assignments, a)
           parts == TextParts(row.original_content, row.file_path, file_text)
           call == [regen[r] EXCEPT !.aid = a, !.variant_type = variant_type,
                                    !.difficulty = difficulty]
       IN regen' =
            IF NoBaseText(parts)
              THEN [RRaise(r, a, NoContent) EXCEPT ![r].variant_type = variant_type]
              ELSE [regen EXCEPT ![r] = [call EXCEPT !.pc = "gen",
                       !.existing = FirstVersion(versions, a, variant_type)]]
  /\ UNCHANGED <<assignments, versions, nextId, fs, elevenlabs_key, probe, created, objs, outcome, c>>

\* lines 93-122 and 142-143, for an assignment the caller loaded from the
\* store: the base text, the look-up of the existing variant, and the
\* refusal of a variant type other than quiz
RegenStart(r, a, variant_type, difficulty) ==
  /\ regen[r].pc = "idle"
  /\ \A q \in RIds : q < r => regen[q].pc # "idle"
  /\ HasRow(assignments, a)
  /\ \E file_text \in Contents :
       LET row == RowOf(assignments, a)
           parts == TextParts(row.original_content, row.file_path, file_text)
           call == [regen[r] EXCEPT !.aid = a, !.variant_type = variant_type,
                                    !.difficulty = difficulty]
       IN regen' =
            IF NoBaseText(parts)
              THEN [RRaise(r, a, NoContent) EXCEPT ![r].variant_type = variant_type]
              ELSE IF variant_type # "quiz"
                THEN [RRaise(r, a, Unsupported) EXCEPT ![r].variant_type = variant_type]
                ELSE [regen EXCEPT ![r] = [call EXCEPT !.pc = "gen",
                         !.existing = FirstVersion(versions, a, variant_type)]]
  /\ UNCHANGED <<assignments, versions, nextId, fs, elevenlabs_key, probe, created, objs, outcome, c>>

\* lines 125-126: the quiz at the requested difficulty, dumped to
\* quiz_<difficulty>.json
RegenGenerate(r) ==
  /\ regen[r].pc = "gen"
  /\ LET a == regen[r].aid
         subject == RowOf(assignments, a).subject
     IN \E cyc \in QuizCycleSeqs(subject, regen[r].difficulty) :
          LET g == gen_quiz(subject, cyc)
          IN IF g.raised
               THEN /\ regen' = RRaise(r, a, g.exc)
                    /\ fs' = fs
               ELSE /\ regen' = [regen EXCEPT ![r] = [@ EXCEPT !.pc = "persist",
                                   !.quiz = g.result,
                                   !.quiz_path = QuizPath(regen[r].difficulty)]]
                    /\ fs' = [fs EXCEPT ![a] = WriteFile(fs[a],
                                   QuizPath(regen[r].difficulty), JsonBytes, "regen")]
  /\ UNCHANGED <<assignments, versions, nextId, elevenlabs_key, probe, created, objs, outcome, c>>

\* (mutant) content_text is not assigned: the row keeps its old content
update_existing_stale(rows, id, quiz, quiz_path) ==
  {IF v.id = id
     THEN [v EXCEPT !.assets = AssetsText("quiz_json" :> Str(quiz_path))]
     ELSE v : v \in rows}

\* (mutant) the update reaches every variant of the assignment
update_existing_all(rows, id, quiz, quiz_path) ==
  {IF v.assignment_id = RowOf(rows, id).assignment_id
     THEN [v EXCEPT !.content_text = Dumps(quiz),
                    !.assets = AssetsText("quiz_json" :> Str(quiz_path))]
     ELSE v : v \in rows}

\* lines 128-134: the existing row is updated in place and returned
update_existing(rows, id, quiz, quiz_path) ==
  {IF v.id = id
     THEN [v EXCEPT !.content_text = Dumps(quiz),
                    !.assets = AssetsText("quiz_json" :> Str(quiz_path))]
     ELSE v : v \in rows}

\* lines 128-141 on the variants table: update in place, or insert
\* through _persist_variant (which returns nothing)
RegenWrite(r) ==
  /\ regen[r].pc = "persist"
  /\ LET f == regen[r]
         subject == RowOf(assignments, f.aid).subject
     IN IF f.existing # 0
          THEN /\ versions' = update_existing(versions, f.existing, f.quiz, f.quiz_path)
               /\ nextId' = nextId
               /\ regen' = RReturn(r, f.aid, f.existing)
          ELSE IF UniqueIndexAdmits(versions, f.aid, "quiz")
            THEN /\ versions' = versions \cup
                      {VersionRow(nextId, f.aid, "quiz", subject, Dumps(f.quiz),
                                  "quiz_json" :> Str(f.quiz_path))}
                 /\ nextId' = nextId + 1
                 /\ regen' = RReturn(r, f.aid, 0)
            ELSE /\ regen' = RRaise(r, f.aid, IntegrityError)
                 /\ UNCHANGED <<versions, nextId>>

\* (mutant) a regeneration marks its assignment ready
RegenPersistMarksReady(r) ==
  /\ RegenWrite(r)
  /\ assignments' = {[row EXCEPT !.status = IF row.id = regen[r].aid THEN "ready" ELSE @]
                       : row \in assignments}
  /\ UNCHANGED <<fs, elevenlabs_key, probe, created, objs, outcome, c>>

\* lines 128-141: the assignment itself is not written
RegenPersist(r) ==
  /\ RegenWrite(r)
  /\ UNCHANGED <<assignments, fs, elevenlabs_key, probe, created, objs, outcome, c>>

\* ------------------------------------------------------------------ spec
\* no helper is being called directly
NoProbe == [fn |-> "none"]

Init ==
  /\ assignments = {}
  /\ versions = {}
  /\ nextId = 1
  /\ fs = [a \in AIds |-> EmptyDir]
  /\ elevenlabs_key \in BOOLEAN
  /\ created = 0
  /\ objs = [a \in AIds |-> NoObj]
  /\ outcome = [a \in AIds |-> NoOutcome]
  /\ c = CIdle
  /\ regen = [r \in RIds |-> RIdle]
  /\ probe = NoProbe

\* The environment of a behaviour: the texts the backend may answer each
\* prompt with and the outcomes of the speech backend, the renderer and the
\* muxer.  Every backend attempt may also fail (AttemptSeqs).
MediaEnv ==
  [simplified |-> SimplifiedTexts, audio |-> AudioTexts, visual |-> VisualTexts,
   speech |-> SpeechOutcomes, render |-> RenderOutcomes, mux |-> MuxOutcomes,
   subjects |-> {"math", "geography"}, contents |-> OriginalTexts \X FilePaths]

CreateNext(env) ==
  \/ \E subject \in env.subjects, content \in env.contents :
       CreateAssignment(subject, content[1], content[2])
  \/ ExtractContent
  \/ GenSimplified(env)
  \/ PersistSimplified
  \/ GenAudio(env)
  \/ SynthAudio(env)
  \/ PersistAudio
  \/ VisualCycle(env)
  \/ MuxStep(env)
  \/ PersistVisual
  \/ GenQuiz
  \/ PersistQuiz
  \/ CreateReturn
  \/ CreateExcept

RegenNext ==
  \E r \in RIds :
    \/ \E a \in AIds, variant_type \in VariantTypes, difficulty \in RegenDifficulties :
         RegenStart(r, a, variant_type, difficulty)
    \/ RegenGenerate(r)
    \/ RegenPersist(r)

\* create_assignment calls under every outcome of the media tools
Next == CreateNext(MediaEnv)

Spec == Init /\ [][Next]_vars

\* An environment whose media tools work and whose backend, when it
\* answers, answers the simplified, audio and visual prompts well
WorkingEnv ==
  [simplified |-> {Resp("object", ("text" :> Str("simplified")) @@ ("highlights" :> List(1)))},
   audio |-> {Resp("object", ("discussion" :> List(2)) @@ ("summary" :> Str("podcast")))},
   visual |-> {Resp("object", ("description" :> Str("video")) @@ ("narration" :> List(3))
                                @@ ("manim_code" :> Str("Lesson")))},
   speech |-> {"ok"}, render |-> {[kind |-> "ok", size |-> 25000]}, mux |-> {"ok"},
   subjects |-> {"math", "geography"},
   contents |-> {<<"text", "none">>, <<"none", "lesson.txt">>}]

InitRegen == Init /\ elevenlabs_key

\* create_assignment and regenerate_variant calls, interleaved
NextRegen == CreateNext(WorkingEnv) \/ RegenNext

SpecRegen == InitRegen /\ [][NextRegen]_vars

\* One create_assignment call that keeps running: the request thread
\* executes one statement after the other, and every external call returns
\* or raises (the renderer and the muxer run under a timeout, lines 820 and
\* 902).  One subject, with and without content, under every outcome of
\* the backend and the media tools.
LiveEnv ==
  [MediaEnv EXCEPT !.subjects = {"math"},
                   !.contents = {<<"text", "none">>, <<"none", "none">>}]

NextLive == CreateNext(LiveEnv)

SpecLive == Init /\ [][NextLive]_vars /\ WF_vars(NextLive)

\* ------------------------------------------------- helpers called directly
\* Each helper of the service is also called on its own, with arguments
\* drawn from every combination the bounded sets below give; probe keeps the
\* arguments and the result of the call.
pipeline_vars ==
  <<assignments, versions, nextId, fs, elevenlabs_key, created, objs, outcome, c, regen>>

\* what model.generate_content may raise
AttemptErrors == BackendErrors \cup {"429 Resource exhausted"}

\* what the attempts of a generate call would do, were they all made
AttemptOutcomes(texts) == {Ok(r) : r \in texts} \cup {Fail(e) : e \in AttemptErrors}
AttemptPlans(texts) == [1..GeminiMaxRetries -> AttemptOutcomes(texts)]

\* _call_gemini_with_retry(prompt)
CallGemini ==
  /\ probe = NoProbe
  /\ \E outs \in AttemptPlans(SimplifiedTexts \cup AudioTexts \cup VisualTexts) :
       probe' = [fn |-> "call_gemini_with_retry", outs |-> outs,
                 res |-> call_gemini_with_retry(outs)]
  /\ UNCHANGED pipeline_vars

\* what the cycles of a _gen_quiz call would do, were they all made
CyclePlans(subject, difficulty) ==
  [1..QuizMaxRetries -> AttemptPlans(QuizTexts(subject, PromptFlavor(subject, difficulty)))]

\* _gen_quiz(subject, text, difficulty)
CallGenQuiz ==
  /\ probe = NoProbe
  /\ \E subject \in Subjects, difficulty \in Difficulties :
       \E cyc \in CyclePlans(subject, difficulty) :
         probe' = [fn |-> "gen_quiz", subject |-> subject, difficulty |-> difficulty,
                   cyc |-> cyc, res |-> gen_quiz(subject, cyc)]
  /\ UNCHANGED pipeline_vars

\* the fallbacks the generators pass
Fallbacks == {SimplifiedFallback, AudioFallback, QuizFallback("math")}

\* _parse_json(text, fallback_keys)
CallParseJson ==
  /\ probe = NoProbe
  /\ \E t \in RawTexts, fallback_keys \in Fallbacks :
       probe' = [fn |-> "parse_json", text |-> t, fallback_keys |-> fallback_keys,
                 res |-> parse_json_text(t, fallback_keys)]
  /\ UNCHANGED pipeline_vars

\* extract_text(path)
CallExtractText ==
  /\ probe = NoProbe
  /\ \E path \in FileRefs :
       probe' = [fn |-> "extract_text", path |-> path, res |-> extract_text(path)]
  /\ UNCHANGED pipeline_vars

UnitNext ==
  \/ CallGemini
  \/ CallGenQuiz
  \/ CallParseJson
  \/ CallExtractText

SpecUnit == Init /\ [][UnitNext]_vars

\* ================================================================ claims
StoredStatus(rows, a) == IF HasRow(rows, a) THEN RowOf(rows, a).status ELSE "absent"
TypesOf(rows, a) == {v.variant_type : v \in VersionsOf(rows, a)}
Ids(rows) == {v.id : v \in rows}
Terminal(status) == status \in {"ready", "failed"}

\* the variant types whose steps come before step k
PrefixBefore(k) ==
  {VariantOrder[i] : i \in {j \in 1..Len(VariantOrder) :
      \E m \in 1..Len(VariantOrder) : VariantOrder[m] = k /\ j < m}}

\* C1: an assignment whose status is 'ready', on the object of the call or
\* in the store, has exactly four persisted variants, one of each type, all
\* with ready = true.
C1_ReadyHasFourVariants ==
  \A a \in AIds :
    (objs[a].status = "ready" \/ StoredStatus(assignments, a) = "ready")
      => /\ Cardinality(VersionsOf(versions, a)) = 4
         /\ \A t \in VariantTypes :
              /\ Cardinality(VersionsOfType(versions, a, t)) = 1
              /\ \A v \in VersionsOfType(versions, a, t) : v.ready

C1_Witness ==
  \E a \in AIds : outcome[a].ended = "returned" /\ StoredStatus(assignments, a) = "ready"

\* C2: over create_assignment and regenerate_variant calls a status is one
\* of generating, ready, failed; a stored record stays stored; and a status
\* that is 'ready' or 'failed' (stored or on the object) never changes.
C2_StatusIsTerminal ==
  [][\A a \in AIds :
       /\ HasRow(assignments, a) => HasRow(assignments', a)
       /\ Terminal(StoredStatus(assignments, a))
            => StoredStatus(assignments', a) = StoredStatus(assignments, a)
       /\ StoredStatus(assignments', a) \in {"absent", "generating", "ready", "failed"}
       /\ Terminal(objs[a].status) => objs'[a].status = objs[a].status
       /\ objs'[a].state # "none" => objs'[a].status \in {"generating", "ready", "failed"}
    ]_vars

C2_Witness ==
  \E r \in RIds :
    /\ regen[r].ended = "returned"
    /\ StoredStatus(assignments, regen[r].aid) = "failed"

\* C3: a call whose sources give no text raises 'no content' at extraction:
\* no backend attempt is made, no variant is persisted and the assignment is
\* never 'ready'; every later step runs with a non-empty text.
C3_NoContentRaisesBeforeWork ==
  /\ c.pc \notin {"idle", "extract", "except"} => c.base_text > 0
  /\ (c.pc = "except" /\ c.base_text <= 0)
       => c.exc = NoContent /\ ~c.called /\ VersionsOf(versions, c.id) = {}
  /\ \A a \in AIds :
       /\ (outcome[a].ended # "no" /\ objs[a].original_content = "none"
             /\ objs[a].file_path = "none") => outcome[a].base_text <= 0
       /\ (outcome[a].ended # "no" /\ outcome[a].base_text <= 0)
            => /\ outcome[a].ended = "raised"
               /\ objs[a].error_message = NoContent
               /\ ~outcome[a].called
               /\ VersionsOf(versions, a) = {}
               /\ objs[a].status # "ready"
               /\ StoredStatus(assignments, a) # "ready"

C3_Witness ==
  \E a \in AIds :
    /\ outcome[a].ended = "raised"
    /\ objs[a].original_content = "none"
    /\ objs[a].error_message = NoContent

\* C4: a call that has a text and whose backend attempts all fail ends with
\* its assignment stored in status 'failed' with a message that is not
\* empty, and with no variant of it persisted.
C4_BackendAlwaysFailing ==
  \A a \in AIds :
    (outcome[a].ended # "no" /\ outcome[a].base_text > 0 /\ ~outcome[a].backend_ok)
      => /\ outcome[a].ended = "raised"
         /\ outcome[a].called
         /\ StoredStatus(assignments, a) = "failed"
         /\ RowOf(assignments, a).error_message # ""
         /\ VersionsOf(versions, a) = {}

\* C5: when the handler of an exception that escaped the step of variant k
\* has run, the assignment is stored in status 'failed' with the exception's
\* message, the variants persisted are those of the steps before k, and the
\* handler has left the variants table as it was.
C5_FailureKeepsPersistedVariants ==
  [][(c.pc = "except" /\ c'.pc = "idle" /\ c.failed_at \in VariantTypes)
       => /\ outcome'[c.id].ended = "raised"
          /\ StoredStatus(assignments', c.id) = "failed"
          /\ RowOf(assignments', c.id).error_message = c.exc
          /\ c.exc # ""
          /\ versions' = versions
          /\ TypesOf(versions', c.id) = PrefixBefore(c.failed_at)
    ]_vars

\* C6: after a create_assignment call has ended, the store holds the
\* assignment's record with status 'ready' or 'failed', and a 'failed'
\* record carries the error message.
C6_StoreHoldsEndedAssignment ==
  \A a \in AIds :
    outcome[a].ended # "no"
      => /\ StoredStatus(assignments, a) \in {"ready", "failed"}
         /\ StoredStatus(assignments, a) = "failed"
              => RowOf(assignments, a).error_message # ""

\* C7: while the running call extracts or generates, the store already
\* holds its assignment with status 'generating'.
C7_GeneratingStoredBeforeWork ==
  c.pc \notin {"idle", "finish", "except"}
    => StoredStatus(assignments, c.id) = "generating"

\* C8: a regenerate_variant(quiz) call that finds a quiz variant updates
\* that record in place and returns it, creating no record; one that returns
\* leaves exactly one quiz record of the assignment, holding the quiz this
\* call generated; the record is new only when the call found none.
C8_QuizUpsert ==
  [][\A r \in RIds :
       (regen[r].pc = "persist" /\ regen'[r].pc = "done")
         => /\ regen[r].existing # 0
                 => /\ regen'[r].ended = "returned"
                    /\ regen'[r].ret = regen[r].existing
                    /\ Ids(versions') = Ids(versions)
            /\ regen'[r].ended = "returned"
                 => /\ Cardinality(VersionsOfType(versions', regen[r].aid, "quiz")) = 1
                    /\ \A v \in VersionsOfType(versions', regen[r].aid, "quiz") :
                         /\ v.content_text = Dumps(regen[r].quiz)
                         /\ regen[r].existing # 0 => v.id = regen[r].existing
                         /\ regen[r].existing = 0 => v.id \notin Ids(versions)
    ]_vars

C8_Witness ==
  \E r1 \in RIds, r2 \in RIds :
    /\ r1 # r2
    /\ regen[r1].ended = "returned" /\ regen[r2].ended = "returned"
    /\ regen[r1].aid = regen[r2].aid
    /\ regen[r2].ret # 0
    /\ Cardinality(VersionsOfType(versions, regen[r1].aid, "quiz")) = 1
    /\ \E v \in VersionsOfType(versions, regen[r1].aid, "quiz") :
         v.content_text.val["questions"].s = "hard"

\* C9: the store never holds two variants of one type for one assignment,
\* and a commit the unique index refuses leaves the variants table as it was.
RefusedCommit ==
  \/ c'.pc = "except" /\ c'.exc = IntegrityError /\ c.pc # "except"
  \/ \E r \in RIds : regen[r].pc = "persist" /\ regen'[r].exc = IntegrityError

C9_OneVariantPerType ==
  /\ [](\A a \in AIds, t \in VariantTypes :
          Cardinality(VersionsOfType(versions, a, t)) <= 1)
  /\ [][RefusedCommit => versions' = versions]_vars

C9_Witness ==
  \E r \in RIds :
    /\ regen[r].exc = IntegrityError
    /\ Cardinality(VersionsOfType(versions, regen[r].aid, "quiz")) = 1

\* C10: a step of regenerate_variant, whether the call goes on, returns or
\* raises, leaves every assignment record and every Assignment object as it
\* was, and leaves the simplified, audio and visual variants as they were.
NonQuiz(rows) == {v \in rows : v.variant_type # "quiz"}

C10_RegenerateFrame ==
  [][regen' # regen
       => /\ assignments' = assignments
          /\ objs' = objs
          /\ NonQuiz(versions') = NonQuiz(versions)
    ]_vars

C10_Witness ==
  \E r1 \in RIds, r2 \in RIds :
    /\ regen[r1].ended = "returned" /\ regen[r1].ret # 0
    /\ regen[r2].ended = "raised"
    /\ regen[r1].aid = regen[r2].aid
    /\ StoredStatus(assignments, regen[r1].aid) = "ready"
    /\ Cardinality(NonQuiz(VersionsOf(versions, regen[r1].aid))) = 3

\* C11: a regenerate_variant(quiz) call that returned has returned the quiz
\* variant record of its assignment: the record it updated, or the record
\* it created.
C11_RegenerateReturnsRecord ==
  \A r \in RIds :
    regen[r].ended = "returned"
      => \E v \in VersionsOfType(versions, regen[r].aid, "quiz") : v.id = regen[r].ret

\* C12: one generate call makes at most 2 backend attempts; it returns the
\* text of the first attempt that succeeds and makes no attempt after it;
\* when both attempts fail it raises the exception of the second attempt.
C12_RetryTwiceThenRaise ==
  probe.fn = "call_gemini_with_retry" =>
    LET outs == probe.outs
        res == probe.res
    IN /\ res.attempts <= 2
       /\ outs[1].ok
            => ~res.raised /\ res.text = outs[1].text /\ res.attempts = 1
       /\ (~outs[1].ok /\ outs[2].ok)
            => ~res.raised /\ res.text = outs[2].text /\ res.attempts = 2
       /\ (~outs[1].ok /\ ~outs[2].ok)
            => res.raised /\ res.exc = outs[2].exc /\ res.attempts = 2

C12_Witness ==
  /\ probe.fn = "call_gemini_with_retry"
  /\ ~probe.outs[1].ok /\ ~probe.outs[2].ok
  /\ probe.outs[1].exc # probe.outs[2].exc
  /\ probe.res.raised

\* the question-like items of a quiz structure: its questions and, in the
\* timeline schema, its timeline events
ItemsIn(result) ==
  Get(result, "questions", List(0)).n + Get(result, "timeline_events", List(0)).n

\* what cycle i of the probed _gen_quiz call parses, when its generate call returns
CycleResult(i) ==
  parse_json(call_gemini_with_retry(probe.cyc[i]).text, QuizFallback(probe.subject))

\* C13: a quiz generation that returns has run at most 2 cycles; it returns
\* the result of its first cycle when that has a question-like item, runs a
\* second cycle only after a first result without one, and then returns the
\* second result as parsed, with nothing of the first.
C13_QuizCycles ==
  (probe.fn = "gen_quiz" /\ ~probe.res.raised) =>
    /\ probe.res.cycles <= 2
    /\ ItemsIn(CycleResult(1)) > 0
         => probe.res.cycles = 1 /\ probe.res.result = CycleResult(1)
    /\ probe.res.cycles = 2
         => ItemsIn(CycleResult(1)) = 0 /\ probe.res.result = CycleResult(2)

\* the quiz type of the schema assigned to a subject
SchemaType(subject) ==
  CASE subject = "language" -> "socratic"
    [] subject = "math" -> "practice"
    [] subject \in {"science", "geography"} -> "practice_repeatable"
    [] subject = "history" -> "timeline_fill"
    [] OTHER -> "standard"

\* C14: the structure a quiz generation returns has a quiz_type, and it is
\* the type of the schema assigned to the subject, whatever the backend
\* answered.
C14_QuizTypeOfSubject ==
  (probe.fn = "gen_quiz" /\ ~probe.res.raised) =>
    /\ "quiz_type" \in DOMAIN probe.res.result
    /\ probe.res.result["quiz_type"] = Str(SchemaType(probe.subject))

\* the keys of mapping a are keys of mapping b
HasKeysOf(b, a) == DOMAIN a \subseteq DOMAIN b

\* a text whose value, the repairs done, is a JSON object
ParsesToObject(t) == ~t.blank /\ loads(clean(t)) = "object"

\* C15: the repair-and-parse step returns for every text; what it returns
\* has every key of the fallback: the fallback itself when the text does not
\* parse to an object, else the fields of the object together with the
\* fallback's values for the keys the object lacks.
C15_ParseNeverRaises ==
  probe.fn = "parse_json" =>
    LET t == probe.text
        fb == probe.fallback_keys
        res == probe.res
    IN /\ ~res.raised
       /\ HasKeysOf(res.result, fb)
       /\ ~ParsesToObject(t) => res.result = fb
       /\ ParsesToObject(t)
            => /\ DOMAIN res.result = DOMAIN fb \cup DOMAIN t.data
               /\ \A k \in DOMAIN t.data : res.result[k] = t.data[k]
               /\ \A k \in DOMAIN fb \ DOMAIN t.data : res.result[k] = fb[k]

\* a fenced text with a trailing comma, comments and smart-quote delimiters
\* that parses to an object overriding a key of the fallback
C15_Witness ==
  /\ probe.fn = "parse_json"
  /\ probe.text.wrap = "fenced" /\ probe.text.commas = "plain" /\ probe.text.comments
  /\ probe.text.quotes = "smart_delimiters"
  /\ ParsesToObject(probe.text)
  /\ \E k \in DOMAIN probe.fallback_keys \cap DOMAIN probe.text.data :
       /\ probe.fallback_keys[k] # probe.text.data[k]
       /\ probe.res.result[k] = probe.text.data[k]

\* C16: for an empty or white-space-only text the repair step returns the
\* fallback, with its keys and values and nothing else.
C16_BlankGivesFallback ==
  (probe.fn = "parse_json" /\ probe.text.blank)
    => ~probe.res.raised /\ probe.res.result = probe.fallback_keys

C16_Witness ==
  /\ probe.fn = "parse_json"
  /\ probe.text.blank
  /\ probe.res.result = QuizFallback("math")

\* the rendered video of a directory is below the size floor
BelowFloor(dir) ==
  Exists(dir, "visual_silent.mp4") /\ GetSize(dir, "visual_silent.mp4") < SizeFloor

\* a directory holding a narration and a rendered video of the given size
DirWithVideo(size) ==
  WriteFile(WriteFile(EmptyDir, "narration.mp3", SpeechBytes, "visual"),
            "visual_silent.mp4", size, "visual")

\* C17: when the rendered video is below the size floor the orchestrator
\* leaves the mux step without having called the mux operation, the muxer
\* not invoked and the rendered video as the final video; the visual variant stores that path and no muxed file
\* exists; and the mux operation, called on such a video, returns its path
\* without invoking the muxer.
C17_PlaceholderSkipsMux ==
  /\ (c.pc = "persist_visual" /\ BelowFloor(fs[c.id]))
       => /\ ~c.mux_called /\ ~c.mux_invoked
          /\ c.final_video = "visual_silent.mp4"
          /\ ~Exists(fs[c.id], "visual.mp4")
  /\ \A a \in AIds : \A v \in VersionsOfType(versions, a, "visual") :
       BelowFloor(fs[a])
         => /\ v.assets.val["video_mp4"] = Str("visual_silent.mp4")
            /\ ~Exists(fs[a], "visual.mp4")
  /\ \A size \in {PlaceholderMp4Bytes} \cup {n \in RenderSizes : n < SizeFloor},
        mx \in MuxOutcomes :
       LET m == add_audio_to_video(DirWithVideo(size), "visual_silent.mp4",
                                   "narration.mp3", "visual.mp4", mx)
       IN ~m.invoked /\ m.path = "visual_silent.mp4" /\ m.dir = DirWithVideo(size)

C17_Witness ==
  \E a \in AIds : \E v \in VersionsOfType(versions, a, "visual") :
    /\ BelowFloor(fs[a])
    /\ Exists(fs[a], "narration.mp3")
    /\ fs[a]["narration.mp3"].writer = "visual"
    /\ v.assets.val["video_mp4"] = Str("visual_silent.mp4")

\* a visual cycle that ended with (success, dir) yielded a placeholder: the
\* render failed or the video is not above the size floor
YieldedPlaceholder(success, dir) ==
  ~success \/ ~(Exists(dir, "visual_silent.mp4")
                 /\ GetSize(dir, "visual_silent.mp4") > SizeFloor)

\* a step of the running creation that is a visual cycle whose plan was generated
VisualCycleDone == c.pc = "visual" /\ c' # c /\ c'.pc # "except"

\* C18: the visual cycle runs at most twice: after the first cycle a second
\* one runs exactly when the first yielded a placeholder, after the second
\* the orchestrator goes on whatever it yielded, and the visual variant is
\* persisted once the step is over.
C18_VisualCycleAtMostTwice ==
  /\ [](c.pc = "visual" => c.attempt \in {0, 1})
  /\ [][(VisualCycleDone /\ c.attempt = 0)
          => /\ c'.pc = "visual" <=> YieldedPlaceholder(c'.success, fs'[c.id])
             /\ c'.pc = "visual" => c'.attempt = 1
             /\ c'.pc # "visual" => c'.pc = "mux"]_vars
  /\ [][(VisualCycleDone /\ c.attempt = 1) => c'.pc = "mux"]_vars
  /\ [](c.pc \in {"gen_quiz", "persist_quiz", "finish"}
          => Cardinality(VersionsOfType(versions, c.id, "visual")) = 1)

\* the quiz step is reached after two cycles that both yielded a placeholder
C18_Witness ==
  /\ c.pc = "gen_quiz"
  /\ c.attempt = 1
  /\ YieldedPlaceholder(c.success, fs[c.id])
  /\ Cardinality(VersionsOfType(versions, c.id, "visual")) = 1

\* the positions of the running creation that call the generation backend
BackendPositions == {"gen_simplified", "gen_audio", "visual", "gen_quiz"}

\* C19: in a creation alone on its assignment, an exception escapes only
\* from extraction (no content) or from a generate call whose backend
\* attempts failed, never from speech synthesis, rendering or muxing,
\* whatever these do; a creation that no exception escaped ends 'ready' with
\* four variants.
C19_MediaFailuresNeverFatal ==
  /\ [][(c'.pc = "except" /\ c.pc # "except")
          => \/ c.pc = "extract" /\ c'.exc = NoContent
             \/ c.pc \in BackendPositions /\ c'.exc \in BackendErrors]_vars
  /\ [][c.pc \in {"synth_audio", "mux"} => c'.pc # "except"]_vars
  /\ [](\A a \in AIds :
          outcome[a].ended = "raised"
            => objs[a].error_message \in BackendErrors \cup {NoContent})
  /\ [](\A a \in AIds :
          outcome[a].ended = "returned"
            => /\ StoredStatus(assignments, a) = "ready"
               /\ TypesOf(versions, a) = VariantTypes
               /\ Cardinality(VersionsOf(versions, a)) = 4)

\* a creation that ended 'ready' although the speech backend failed on the
\* podcast and the muxer failed on a genuine video
C19_Witness ==
  \E a \in AIds :
    /\ outcome[a].ended = "returned"
    /\ StoredStatus(assignments, a) = "ready"
    /\ GetSize(fs[a], "podcast.mp3") = ExceptMp3Bytes
    /\ GetSize(fs[a], "visual_silent.mp4") > SizeFloor
    /\ Exists(fs[a], "narration.mp3")
    /\ ~Exists(fs[a], "visual.mp4")

\* C20: extract_text never raises, and for a file reference that is absent,
\* cannot be read, or is of a kind no reader supports, it returns None
Absent(path) == path = NoPath \/ ~path.exists
Unreadable(path) == path # NoPath /\ path.exists /\ ~path.readable
UnsupportedKind(path) == path # NoPath /\ path.ext \notin TextExts \cup DocumentExts
C20_ExtractNeverRaises ==
  probe.fn = "extract_text" =>
    /\ ~probe.res.raised
    /\ (Absent(probe.path) \/ Unreadable(probe.path) \/ UnsupportedKind(probe.path))
         => probe.res.text = "none"

\* the variant types persisted when the running creation stands at pc
PersistedAt(pc) ==
  IF pc = "finish" THEN VariantTypes
  ELSE IF pc = "except" THEN PrefixBefore(c.failed_at)
  ELSE PrefixBefore(StepOfPc(pc))

\* C21: while create_assignment runs, the persisted variants of its
\* assignment are exactly those of the steps before the one it stands at
\* (a prefix of simplified, audio, visual, quiz), so no generation,
\* synthesis or render of a later variant starts before the earlier variant
\* is persisted; and every assignment's persisted variants form a prefix.
C21_PersistedInOrder ==
  /\ c.pc # "idle" => TypesOf(versions, c.id) = PersistedAt(c.pc)
  /\ \A a \in AIds :
       \E n \in 0..Len(VariantOrder) :
         /\ TypesOf(versions, a) = {VariantOrder[i] : i \in 1..n}
         /\ Cardinality(VersionsOf(versions, a)) = n

\* the quiz is being generated with the three earlier variants persisted
C21_Witness ==
  /\ c.pc = "gen_quiz"
  /\ TypesOf(versions, c.id) = {"simplified", "audio", "visual"}

\* the most backend attempts one creation can make: one generate call for
\* the simplified text, one for the audio script, one per visual cycle and
\* one per quiz cycle
MaxBackendAttempts ==
  GeminiMaxRetries * (1 + 1 + VisualMaxAttempts + QuizMaxRetries)

\* the retries of a creation are bounded
BoundedRetries ==
  /\ c.attempts <= MaxBackendAttempts
  /\ c.attempt < VisualMaxAttempts
  /\ StepOfPc(c.pc) = "simplified" /\ c.pc # "except" => c.attempts <= GeminiMaxRetries
  /\ c.pc = "persist_simplified" => c.attempts \in 1..GeminiMaxRetries

\* C22: every create_assignment call ends, with its assignment stored as
\* 'ready' or 'failed' and not left 'generating', whatever the backend, the
\* renderer and the muxer do; while it runs it makes at most 2 visual
\* cycles and at most 12 backend attempts.
C22_CreationTerminates ==
  /\ \A a \in AIds :
       (objs[a].state # "none")
         ~> (outcome[a].ended # "no" /\ Terminal(StoredStatus(assignments, a)))
  /\ []BoundedRetries

\* the response the first generate call of the probed _gen_quiz call returns
FirstResponse == call_gemini_with_retry(probe.cyc[1])

\* C23: for the history schema, a first response that parses to a non-empty
\* timeline_events list and no questions field has question-like items:
\* _gen_quiz returns it after one cycle, without a second one.
C23_TimelineEventsCount ==
  (/\ probe.fn = "gen_quiz"
   /\ probe.subject = "history"
   /\ ~FirstResponse.raised
   /\ FirstResponse.text.kind = "object"
   /\ "questions" \notin DOMAIN FirstResponse.text.data
   /\ Get(FirstResponse.text.data, "timeline_events", List(0)).n > 0)
    => /\ ~probe.res.raised
       /\ probe.res.cycles = 1
       /\ probe.res.result = CycleResult(1)

\* C24: the orchestrator and _add_audio_to_video sort every video size the
\* same way: below the floor of 10000 bytes it is a placeholder (the visual
\* cycle is retried, the muxer not invoked), at the floor or above it is
\* genuine (no retry, the muxer invoked when narration exists).
C24_SameSizeClassification ==
  \A a \in AIds :
    LET dir == fs[a]
        video == "visual_silent.mp4"
        genuine == GetSize(dir, video) >= SizeFloor
    IN Exists(dir, video) =>
         /\ valid_video(dir, video) = genuine
         /\ \A mx \in MuxOutcomes :
              add_audio_to_video(dir, video, "narration.mp3", "visual.mp4", mx).invoked
                = genuine
         /\ (c.id = a /\ c.pc = "visual" /\ c.success) => ~genuine
         /\ (c.id = a /\ c.pc = "persist_visual" /\ c.narration_audio # "")
              => c.mux_called = genuine

\* the muxer ran for the running creation and left no muxed file
MuxFailed == c.mux_invoked /\ ~Exists(fs[c.id], "visual.mp4")

\* the path stored on the visual variant of assignment a
StoredVideo(a) ==
  {v.assets.val["video_mp4"].s : v \in VersionsOfType(versions, a, "visual")}

\* C25: the muxer is invoked only with an existing narration and a genuine
\* video; when it fails, whatever the failure, the mux step ends with the
\* silent video as the final video, the visual variant is persisted with
\* that path, and the creation goes on to the quiz step.
C25_MuxFailureKeepsSilentVideo ==
  /\ [](c.mux_invoked =>
          /\ c.narration_audio # "" /\ Exists(fs[c.id], c.narration_audio)
          /\ Exists(fs[c.id], c.video_mp4)
          /\ GetSize(fs[c.id], c.video_mp4) >= SizeFloor)
  /\ [](MuxFailed =>
          /\ c.pc \in {"persist_visual", "gen_quiz", "persist_quiz", "finish", "except"}
          /\ c.final_video = "visual_silent.mp4"
          /\ c.pc # "persist_visual" => StoredVideo(c.id) = {"visual_silent.mp4"}
          /\ c.pc = "except" => c.failed_at = "quiz")
  /\ [][(c.pc = "mux" => c'.pc = "persist_visual")
          /\ (c.pc = "persist_visual" => c'.pc = "gen_quiz")]_vars

\* the quiz is being generated after a mux that failed
C25_Witness ==
  /\ c.pc = "gen_quiz"
  /\ MuxFailed
  /\ StoredVideo(c.id) = {"visual_silent.mp4"}

\* regenerate_variant call r starts and ends in this step, for a variant
\* type other than quiz
RefusedType(r) ==
  regen[r].pc = "idle" /\ regen'[r].pc = "done" /\ regen'[r].variant_type # "quiz"

\* C26 as stated: a regenerate_variant call for a variant type other than
\* quiz raises the 'unsupported' error, changes no variant record and makes
\* no backend call
C26_UnsupportedTypeRefused ==
  /\ [](\A r \in RIds : regen[r].pc \in {"gen", "persist"} => regen[r].variant_type = "quiz")
  /\ [][\A r \in RIds :
          RefusedType(r) =>
            /\ regen'[r].ended = "raised" /\ regen'[r].exc = Unsupported
            /\ versions' = versions /\ assignments' = assignments /\ nextId' = nextId
       ]_vars

\* C26 (amended): a regenerate_variant call for a variant type other than
\* quiz never reaches the quiz generation: it ends at once by raising, 'no
\* content' when the assignment yields no text and 'unsupported' otherwise
\* (always 'unsupported' when the assignment has raw text), and it changes
\* no assignment, no variant record and no file.
C26_NonQuizTypeRaises ==
  /\ [](\A r \in RIds : regen[r].pc \in {"gen", "persist"} => regen[r].variant_type = "quiz")
  /\ [][\A r \in RIds :
          /\ (regen[r].pc = "idle" /\ regen'[r].pc # "idle"
                /\ regen'[r].variant_type # "quiz") => regen'[r].pc = "done"
          /\ RefusedType(r) =>
               /\ regen'[r].ended = "raised"
               /\ regen'[r].exc \in {Unsupported, NoContent}
               /\ RowOf(assignments, regen'[r].aid).original_content = "text"
                    => regen'[r].exc = Unsupported
               /\ versions' = versions /\ assignments' = assignments
               /\ nextId' = nextId /\ fs' = fs
       ]_vars

\* an audio regeneration was refused as unsupported on an assignment that
\* has variants
C26_Witness ==
  \E r \in RIds :
    /\ regen[r].pc = "done" /\ regen[r].variant_type = "audio"
    /\ regen[r].exc = Unsupported
    /\ VersionsOf(versions, regen[r].aid) # {}

\* C27: every variant record in the store, after any create_assignment and
\* regenerate_variant calls, is ready, has a content payload and has a
\* mapping as its assets.
C27_VariantNeverHalfWritten ==
  \A v \in versions :
    /\ v.ready
    /\ v.content_text.enc = "json"
    /\ v.assets.form = "mapping"

\* the asset keys that hold the path of an artifact file
PathKeys == {"audio_mp3", "video_mp4", "manim_script", "narration_audio", "quiz_json"}

\* the files a variant record references
FilesOf(v) ==
  {v.assets.val[k].s : k \in {j \in DOMAIN v.assets.val \cap PathKeys : Truthy(v.assets.val[j])}}

\* C28: a file referenced by a persisted variant is as the step of that
\* variant wrote it, no later step of the creation has rewritten it; the
\* audio and the visual variant of an assignment reference no common file.
C28_ArtifactNotOverwritten ==
  /\ \A v \in versions :
       \A f \in FilesOf(v) :
         /\ Exists(fs[v.assignment_id], f)
         /\ fs[v.assignment_id][f].writer = v.variant_type
  /\ \A v \in versions, w \in versions :
       (v.assignment_id = w.assignment_id /\ v.variant_type = "audio"
          /\ w.variant_type = "visual") => FilesOf(v) \cap FilesOf(w) = {}

\* regenerate_variant call r found no quiz variant and is about to insert
\* one, or has ended after attempting the insert
AboutToInsert(r) == regen[r].pc = "persist" /\ regen[r].existing = 0
AttemptedInsert(r) ==
  /\ regen[r].pc = "done" /\ regen[r].variant_type = "quiz"
  /\ \/ regen[r].ended = "returned" /\ regen[r].ret = 0
     \/ regen[r].ended = "raised" /\ regen[r].exc = IntegrityError

\* C29: regenerate_variant(quiz) calls that run together on an assignment
\* without a quiz variant may all find none and all attempt an insert; the
\* store never holds two quiz variants of one assignment: of two calls that
\* attempted the insert at most one returned, the other was refused by the
\* unique index, and a refused insert writes nothing.
C29_ConcurrentInsertsOneQuiz ==
  /\ [](\A a \in AIds : Cardinality(VersionsOfType(versions, a, "quiz")) <= 1)
  /\ [](\A r1 \in RIds, r2 \in RIds :
          (r1 # r2 /\ regen[r1].aid = regen[r2].aid
             /\ AttemptedInsert(r1) /\ AttemptedInsert(r2))
            => /\ Cardinality(VersionsOfType(versions, regen[r1].aid, "quiz")) = 1
               /\ ~(regen[r1].ended = "returned" /\ regen[r2].ended = "returned"))
  /\ [][\A r \in RIds :
          (AboutToInsert(r) /\ regen'[r].pc = "done")
            => IF VersionsOfType(versions, regen[r].aid, "quiz") = {}
                 THEN /\ regen'[r].ended = "returned"
                      /\ Cardinality(VersionsOfType(versions', regen[r].aid, "quiz")) = 1
                 ELSE /\ regen'[r].ended = "raised" /\ regen'[r].exc = IntegrityError
                      /\ versions' = versions
       ]_vars

\* two calls both found no quiz variant of an assignment whose creation
\* failed before its quiz step; one inserted, the other was refused
C29_Witness ==
  \E r1 \in RIds, r2 \in RIds :
    /\ r1 # r2 /\ regen[r1].aid = regen[r2].aid
    /\ AttemptedInsert(r1) /\ regen[r1].ended = "returned"
    /\ AttemptedInsert(r2) /\ regen[r2].ended = "raised"
    /\ outcome[regen[r1].aid].ended = "raised"
    /\ outcome[regen[r1].aid].failed_at = "audio"
    /\ Cardinality(VersionsOfType(versions, regen[r1].aid, "quiz")) = 1

\* C30: a regenerate_variant(quiz) call running beside a creation that is
\* still 'generating' does not keep it from 'ready': a creation that has
\* generated its quiz, all earlier steps done, persists it and goes on to
\* finish, and a creation that returned is stored 'ready' with exactly one
\* quiz variant.
C30_RegenerateDuringGenerating ==
  /\ [][(c.pc = "persist_quiz" /\ c' # c) => c'.pc = "finish"]_vars
  /\ [](\A a \in AIds :
          outcome[a].ended = "returned"
            => /\ StoredStatus(assignments, a) = "ready"
               /\ Cardinality(VersionsOfType(versions, a, "quiz")) = 1)
  /\ [](\A a \in AIds : outcome[a].ended = "raised" => outcome[a].failed_at # "quiz"
                          \/ objs[a].error_message # IntegrityError)

====
